---- MODULE Spec2Model ----
(***************************************************************************)
(* A model of the accessible help widget of src/js/a11y-help.js.           *)
(*                                                                         *)
(* The file defines TxGov.a11yHelp twice: the first object literal at      *)
(* lines 31-272 and the second at lines 304-506.  The variable impl says   *)
(* which of the two definitions the page runs (1 or 2).  The document is   *)
(* a fixed list of .a11y-help triggers and .a11y-help-content targets,     *)
(* some of which contain an .a11y-help-close element.                      *)
(***************************************************************************)
EXTENDS Integers, Sequences, FiniteSets, TLC

\* Bounds of the model.
MaxPairs == 3
MaxListeners == 5
MaxInits == 2
MaxReInitPairs == 1

VARIABLES
    impl,        \* which definition of txgov.a11yHelp is in effect: 1 or 2
    doc,         \* the document: numbers of triggers and targets, targets with a close element
    settings,    \* a11yHelp.settings
    triggers,    \* a11yHelp.triggers: null or the stored NodeList
    targets,     \* a11yHelp.targets: null or the stored NodeList
    trig,        \* the .a11y-help elements, in document order
    targ,        \* the .a11y-help-content elements, in document order
    initResult,  \* outcome of the last init call: "none", "ok", "Error" or "TypeError"
    inits,       \* number of init calls so far
    last,        \* the last operation and what it did to its event
    prev,        \* trig, targ and settings as they were before the last operation
    twin         \* the same page under the other definition, when both are run side by side

vars == <<impl, doc, settings, triggers, targets, trig, targ, initResult, inits, last, prev,
          twin>>

Modes == {"polite", "rude"}
Positions == {"left", "right"}
EventTypes == {"click", "mouseover", "focus", "mouseout", "blur"}

----------------------------------------------------------------------------
(* DOM values *)

\* An inline style: every property reads "" until it is set.
NoStyle ==
    [display |-> "", position |-> "", overflow |-> "", boxShadow |-> "",
     maxWidth |-> "", left |-> "", right |-> "", top |-> ""]

\* A NodeList of n elements, or null.
Null == [isNull |-> TRUE, length |-> 0]
NodeList(n) == [isNull |-> FALSE, length |-> n]

\* A trigger before init: no target/helpOn property, no listener.
FreshTrigger ==
    [bound |-> FALSE, target |-> 0, helpOn |-> FALSE, listeners |-> <<>>,
     href |-> "original", title |-> TRUE]

\* A target before init; closeListeners counts the listeners on its close element.
FreshTarget ==
    [style |-> NoStyle, parentStyle |-> NoStyle, closeStyle |-> NoStyle,
     closeListeners |-> 0]

Listener(type, fn) == [type |-> type, fn |-> fn]

\* addEventListener: a listener already registered (same type, same function)
\* is not added again; a function expression is a new function each time.
addEventListener(L, type, fn) ==
    IF fn # "anon" /\ \E k \in 1..Len(L) : L[k] = Listener(type, fn)
    THEN L
    ELSE Append(L, Listener(type, fn))

removeEventListener(L, type, fn) ==
    LET keep(x) == x # Listener(type, fn) IN SelectSeq(L, keep)

\* setStyles: copy every given property into the element's inline style.
setStyles(style, styles) ==
    [p \in DOMAIN style |-> IF p \in DOMAIN styles THEN styles[p] ELSE style[p]]

----------------------------------------------------------------------------
(* Settings *)

DefaultSettings == [mode |-> "polite", triggerPos |-> "right"]

Absent == [has |-> "absent", val |-> "undefined"]
KeyOf(vals) ==
    {Absent} \cup {[has |-> h, val |-> x] : h \in {"own", "inherited"}, x \in vals}

\* The argument of init: missing, a string, null, or an object whose keys
\* are own properties, inherited properties or absent.
Configs ==
    {[kind |-> k, mode |-> Absent, triggerPos |-> Absent] :
        k \in {"undefined", "string", "null"}}
    \cup {[kind |-> "object", mode |-> m, triggerPos |-> p] :
            m \in KeyOf(Modes), p \in KeyOf(Positions)}

NoConfig == [kind |-> "undefined", mode |-> Absent, triggerPos |-> Absent]

\* typeof settings === 'object' (true of null as well)
TypeofObject(c) == c.kind \in {"object", "null"}

\* initSettings without the hasOwnProperty test
initSettingsAllKeys(s, c) ==
    IF TypeofObject(c)
    THEN [mode |-> IF c.mode.has # "absent" THEN c.mode.val ELSE s.mode,
          triggerPos |-> IF c.triggerPos.has # "absent" THEN c.triggerPos.val
                         ELSE s.triggerPos]
    ELSE s

initSettings(s, c) ==
    IF TypeofObject(c)
    THEN [mode |-> IF c.mode.has = "own" THEN c.mode.val ELSE s.mode,
          triggerPos |-> IF c.triggerPos.has = "own" THEN c.triggerPos.val
                         ELSE s.triggerPos]
    ELSE s

----------------------------------------------------------------------------
(* Handlers.  They work on a record st = [trig, targ, thrown, prevented,   *)
(* stopped]; v is the definition in effect, mode the current mode, stored  *)
(* the value of a11yHelp.triggers.                                         *)

\* configureHandlers that registers no blur listener on an open pair
configureHandlersNoBlur(v, mode, tr) ==
    LET L == tr.listeners IN
    IF tr.helpOn
    THEN CASE mode = "polite" ->
                [tr EXCEPT !.listeners =
                    addEventListener(removeEventListener(L, "click", "showHelp"),
                                     "click", "hideHelp")]
           [] mode = "rude" ->
                LET a == removeEventListener(
                            removeEventListener(L, "mouseover", "showHelp"),
                            "focus", "showHelp")
                    b == IF v = 1 THEN addEventListener(a, "click", "anon") ELSE a
                IN [tr EXCEPT !.listeners = addEventListener(b, "mouseout", "hideHelp")]
           [] OTHER -> tr
    ELSE CASE mode = "polite" ->
                [tr EXCEPT !.listeners =
                    addEventListener(removeEventListener(L, "click", "hideHelp"),
                                     "click", "showHelp")]
           [] mode = "rude" ->
                LET a == removeEventListener(
                            removeEventListener(L, "mouseout", "hideHelp"),
                            "blur", "hideHelp")
                    b == IF v = 1 THEN addEventListener(a, "click", "anon") ELSE a
                IN [tr EXCEPT !.listeners =
                        addEventListener(addEventListener(b, "mouseover", "showHelp"),
                                         "focus", "showHelp")]
           [] OTHER -> tr

\* configureHandlers whose click listener of the first definition's rude
\* mode is showHelp
configureHandlersClickShows(v, mode, tr) ==
    LET L == tr.listeners IN
    IF tr.helpOn
    THEN CASE mode = "polite" ->
                [tr EXCEPT !.listeners =
                    addEventListener(removeEventListener(L, "click", "showHelp"),
                                     "click", "hideHelp")]
           [] mode = "rude" ->
                LET a == removeEventListener(
                            removeEventListener(L, "mouseover", "showHelp"),
                            "focus", "showHelp")
                    b == IF v = 1 THEN addEventListener(a, "click", "anon") ELSE a
                IN [tr EXCEPT !.listeners =
                        addEventListener(addEventListener(b, "mouseout", "hideHelp"),
                                         "blur", "hideHelp")]
           [] OTHER -> tr
    ELSE CASE mode = "polite" ->
                [tr EXCEPT !.listeners =
                    addEventListener(removeEventListener(L, "click", "hideHelp"),
                                     "click", "showHelp")]
           [] mode = "rude" ->
                LET a == removeEventListener(
                            removeEventListener(L, "mouseout", "hideHelp"),
                            "blur", "hideHelp")
                    b == IF v = 1 THEN addEventListener(a, "click", "showHelp") ELSE a
                IN [tr EXCEPT !.listeners =
                        addEventListener(addEventListener(b, "mouseover", "showHelp"),
                                         "focus", "showHelp")]
           [] OTHER -> tr

configureHandlers(v, mode, tr) ==
    LET L == tr.listeners IN
    IF tr.helpOn
    THEN CASE mode = "polite" ->
                [tr EXCEPT !.listeners =
                    addEventListener(removeEventListener(L, "click", "showHelp"),
                                     "click", "hideHelp")]
           [] mode = "rude" ->
                LET a == removeEventListener(
                            removeEventListener(L, "mouseover", "showHelp"),
                            "focus", "showHelp")
                    b == IF v = 1 THEN addEventListener(a, "click", "anon") ELSE a
                IN [tr EXCEPT !.listeners =
                        addEventListener(addEventListener(b, "mouseout", "hideHelp"),
                                         "blur", "hideHelp")]
           [] OTHER -> tr
    ELSE CASE mode = "polite" ->
                [tr EXCEPT !.listeners =
                    addEventListener(removeEventListener(L, "click", "hideHelp"),
                                     "click", "showHelp")]
           [] mode = "rude" ->
                LET a == removeEventListener(
                            removeEventListener(L, "mouseout", "hideHelp"),
                            "blur", "hideHelp")
                    b == IF v = 1 THEN addEventListener(a, "click", "anon") ELSE a
                IN [tr EXCEPT !.listeners =
                        addEventListener(addEventListener(b, "mouseover", "showHelp"),
                                         "focus", "showHelp")]
           [] OTHER -> tr

\* hideAllTargets' loop without the setStyles call
RECURSIVE hideLoopNoStyle(_, _, _, _, _)
hideLoopNoStyle(v, mode, stored, st, i) ==
    IF i > stored.length THEN st
    ELSE IF ~st.trig[i].bound THEN [st EXCEPT !.thrown = TRUE]
    ELSE LET s2 == [st EXCEPT !.trig[i].helpOn = FALSE]
             s3 == [s2 EXCEPT !.trig[i] = configureHandlers(v, mode, @)]
         IN hideLoopNoStyle(v, mode, stored, s3, i + 1)

\* hideAllTargets' loop without the call of configureHandlers
RECURSIVE hideLoopNoReconfigure(_, _, _, _, _)
hideLoopNoReconfigure(v, mode, stored, st, i) ==
    IF i > stored.length THEN st
    ELSE IF ~st.trig[i].bound THEN [st EXCEPT !.thrown = TRUE]
    ELSE LET t == st.trig[i].target
             s1 == [st EXCEPT !.targ[t].style = setStyles(@, [display |-> "none"])]
             s2 == [s1 EXCEPT !.trig[i].helpOn = FALSE]
         IN hideLoopNoReconfigure(v, mode, stored, s2, i + 1)

\* hideAllTargets' loop assigning true to helpOn
RECURSIVE hideLoopOpens(_, _, _, _, _)
hideLoopOpens(v, mode, stored, st, i) ==
    IF i > stored.length THEN st
    ELSE IF ~st.trig[i].bound THEN [st EXCEPT !.thrown = TRUE]
    ELSE LET t == st.trig[i].target
             s1 == [st EXCEPT !.targ[t].style = setStyles(@, [display |-> "none"])]
             s2 == [s1 EXCEPT !.trig[i].helpOn = TRUE]
             s3 == [s2 EXCEPT !.trig[i] = configureHandlers(v, mode, @)]
         IN hideLoopOpens(v, mode, stored, s3, i + 1)

\* The body of hideAllTargets' loop from index i on.  A trigger without a
\* target property makes setStyles throw, which ends the loop.
RECURSIVE hideLoop(_, _, _, _, _)
hideLoop(v, mode, stored, st, i) ==
    IF i > stored.length THEN st
    ELSE IF ~st.trig[i].bound THEN [st EXCEPT !.thrown = TRUE]
    ELSE LET t == st.trig[i].target
             s1 == [st EXCEPT !.targ[t].style = setStyles(@, [display |-> "none"])]
             s2 == [s1 EXCEPT !.trig[i].helpOn = FALSE]
             s3 == [s2 EXCEPT !.trig[i] = configureHandlers(v, mode, @)]
         IN hideLoop(v, mode, stored, s3, i + 1)

hideAllTargets(v, mode, stored, st) ==
    IF stored.isNull THEN [st EXCEPT !.thrown = TRUE]
    ELSE hideLoop(v, mode, stored, st, 1)

suppress(st) == [st EXCEPT !.prevented = TRUE, !.stopped = TRUE]

\* showHelp without the call of hideAllTargets
showHelpNoHideAll(v, mode, stored, st, i) ==
    LET s0 == suppress(st)
        t == s0.trig[i].target
        s2 == [s0 EXCEPT !.targ[t].style = setStyles(@, [display |-> "block"])]
        s3 == [s2 EXCEPT !.trig[i].helpOn = TRUE]
    IN [s3 EXCEPT !.trig[i] = configureHandlers(v, mode, @)]

\* showHelp calling hideAllTargets in every mode
showHelpAlwaysHides(v, mode, stored, st, i) ==
    LET s1 == hideAllTargets(v, mode, stored, suppress(st))
    IN IF s1.thrown THEN s1
       ELSE LET t == s1.trig[i].target
                s2 == [s1 EXCEPT !.targ[t].style = setStyles(@, [display |-> "block"])]
                s3 == [s2 EXCEPT !.trig[i].helpOn = TRUE]
            IN [s3 EXCEPT !.trig[i] = configureHandlers(v, mode, @)]

\* showHelp with this = trigger i
showHelp(v, mode, stored, st, i) ==
    LET s0 == suppress(st)
        s1 == IF mode = "polite" THEN hideAllTargets(v, mode, stored, s0) ELSE s0
    IN IF s1.thrown THEN s1
       ELSE LET t == s1.trig[i].target
                s2 == [s1 EXCEPT !.targ[t].style = setStyles(@, [display |-> "block"])]
                s3 == [s2 EXCEPT !.trig[i].helpOn = TRUE]
            IN [s3 EXCEPT !.trig[i] = configureHandlers(v, mode, @)]

\* hideHelp without the call of configureHandlers
hideHelpNoReconfigure(v, mode, stored, st, i) ==
    LET s0 == suppress(st)
        t == s0.trig[i].target
        s1 == [s0 EXCEPT !.targ[t].style = setStyles(@, [display |-> "none"])]
    IN [s1 EXCEPT !.trig[i].helpOn = FALSE]

\* hideHelp without the setStyles call
hideHelpNoStyle(v, mode, stored, st, i) ==
    LET s0 == suppress(st)
        s2 == [s0 EXCEPT !.trig[i].helpOn = FALSE]
    IN [s2 EXCEPT !.trig[i] = configureHandlers(v, mode, @)]

\* hideHelp with this = trigger i
hideHelp(v, mode, stored, st, i) ==
    LET s0 == suppress(st)
        t == s0.trig[i].target
        s1 == [s0 EXCEPT !.targ[t].style = setStyles(@, [display |-> "none"])]
        s2 == [s1 EXCEPT !.trig[i].helpOn = FALSE]
    IN [s2 EXCEPT !.trig[i] = configureHandlers(v, mode, @)]

\* One listener of trigger i runs; an exception it throws does not stop
\* the listeners after it.
runListener(v, mode, stored, st, i, l) ==
    LET r == CASE l.fn = "showHelp" -> showHelp(v, mode, stored, st, i)
               [] l.fn = "hideHelp" -> hideHelp(v, mode, stored, st, i)
               [] OTHER -> suppress(st)
    IN [r EXCEPT !.thrown = FALSE]

\* Dispatch of an event to trigger i: the listeners registered for its type
\* when the dispatch starts run in order of registration; one removed by
\* an earlier listener of the same dispatch does not run.
RECURSIVE dispatchFrom(_, _, _, _, _, _, _)
dispatchFrom(v, mode, stored, st, i, snapshot, k) ==
    IF k > Len(snapshot) THEN st
    ELSE LET l == snapshot[k]
             L == st.trig[i].listeners
             live == \E n \in 1..Len(L) : L[n] = l
             s1 == IF live THEN runListener(v, mode, stored, st, i, l) ELSE st
         IN dispatchFrom(v, mode, stored, s1, i, snapshot, k + 1)

dispatch(v, mode, stored, st, i, type) ==
    LET ofType(x) == x.type = type
    IN dispatchFrom(v, mode, stored, st, i, SelectSeq(st.trig[i].listeners, ofType), 1)

\* The listener of a close element, once per registration.
RECURSIVE closeFrom(_, _, _, _, _)
closeFrom(v, mode, stored, st, n) ==
    IF n = 0 THEN st
    ELSE closeFrom(v, mode, stored,
                   [hideAllTargets(v, mode, stored, suppress(st)) EXCEPT !.thrown = FALSE],
                   n - 1)

----------------------------------------------------------------------------
(* Initialisation *)

TargetStyles(pos) ==
    [boxShadow |-> "0 0 5px #ccc", position |-> "absolute", maxWidth |-> "innerWidth",
     left |-> IF pos = "left" THEN "triggerWidth" ELSE "auto",
     right |-> IF pos = "right" THEN "triggerWidth" ELSE "auto",
     top |-> "-5px"]

ParentStyles == [position |-> "relative", overflow |-> "visible"]

\* Position the bubble of target i (the same statements in both definitions).
positionTarget(s, st, i) ==
    [st EXCEPT !.targ[i].parentStyle = setStyles(@, ParentStyles),
               !.targ[i].style = setStyles(@, TargetStyles(s.triggerPos))]

\* initTarget that skips the close element when there is none
initTargetOptionalClose(s, d, st, i) ==
    LET s1 == positionTarget(s, st, i)
    IN IF i \notin d.close THEN s1
       ELSE LET s2 == IF s.mode = "rude"
                      THEN [s1 EXCEPT !.targ[i].closeStyle =
                                        setStyles(@, [display |-> "none"])]
                      ELSE s1
            IN [s2 EXCEPT !.targ[i].closeListeners = @ + 1]

\* initTarget of the first definition; a target without a close element
\* makes it throw after the bubble has been positioned.
initTarget(s, d, st, i) ==
    LET s1 == positionTarget(s, st, i)
    IN IF i \notin d.close THEN [s1 EXCEPT !.thrown = TRUE]
       ELSE LET s2 == IF s.mode = "rude"
                      THEN [s1 EXCEPT !.targ[i].closeStyle =
                                        setStyles(@, [display |-> "none"])]
                      ELSE s1
            IN [s2 EXCEPT !.targ[i].closeListeners = @ + 1]

\* The helpOn property defined with the value true
bindTargetOpen(tr, i) == [tr EXCEPT !.bound = TRUE, !.target = i, !.helpOn = TRUE]

\* Object.defineProperty(trigger, 'target', ...) and (trigger, 'helpOn', ...)
bindTarget(tr, i) == [tr EXCEPT !.bound = TRUE, !.target = i, !.helpOn = FALSE]

\* initTrigger: the handlers of the closed state, then the housekeeping.
initTrigger(v, s, tr) ==
    [configureHandlers(v, s.mode, tr) EXCEPT !.href = "javascript:void();",
                                              !.title = FALSE]

\* The loop of initElements from index i on.
RECURSIVE initLoop(_, _, _, _, _)
initLoop(v, s, d, st, i) ==
    IF i > d.nTriggers THEN st
    ELSE LET s1 == IF v = 1 THEN initTarget(s, d, st, i) ELSE positionTarget(s, st, i)
         IN IF s1.thrown THEN s1
            ELSE LET s2 == [s1 EXCEPT !.trig[i] = bindTarget(@, i)]
                     s3 == [s2 EXCEPT !.trig[i] = initTrigger(v, s, @)]
                 IN initLoop(v, s, d, s3, i + 1)

\* initElements: result is the error thrown ("ok" when none), with the
\* stored lists and the elements as the call leaves them.
initElements(v, s, d, stored, storedTargets, st) ==
    IF v = 2 /\ d.nTriggers = 0
    THEN [result |-> "TypeError", triggers |-> stored, targets |-> storedTargets, st |-> st]
    ELSE IF d.nTriggers # d.nTargets
    THEN [result |-> "Error", triggers |-> stored, targets |-> storedTargets, st |-> st]
    ELSE LET r == initLoop(v, s, d, st, 1)
         IN [result |-> IF r.thrown THEN "TypeError" ELSE "ok",
             triggers |-> NodeList(d.nTriggers), targets |-> NodeList(d.nTargets),
             st |-> r]

----------------------------------------------------------------------------
(* The state machine *)

\* The targets that contain a close element: all, none, or all but one.
CloseSets(b) == {1..b, {}} \cup {(1..b) \ {k} : k \in 1..b}

Docs ==
    UNION {{[nTriggers |-> a, nTargets |-> b, close |-> c] : c \in CloseSets(b)} :
              a \in 0..MaxPairs, b \in 0..MaxPairs}

SmallDocs == {d \in Docs : d.nTriggers <= MaxReInitPairs /\ d.nTargets <= MaxReInitPairs}

Op(op, idx, cfg, st) ==
    [op |-> op, idx |-> idx, cfg |-> cfg, prevented |-> st.prevented, stopped |-> st.stopped]

State0 == [trig |-> trig, targ |-> targ, thrown |-> FALSE, prevented |-> FALSE, stopped |-> FALSE]

Snapshot == [trig |-> trig, targ |-> targ, settings |-> settings]

WithinBounds(tr) == \A i \in DOMAIN tr : Len(tr[i].listeners) <= MaxListeners

\* The page after the script has loaded, before init.
Loaded(docs) ==
    /\ impl \in {1, 2}
    /\ doc \in docs
    /\ settings = DefaultSettings
    /\ triggers = Null
    /\ targets = Null
    /\ trig = [i \in 1..doc.nTriggers |-> FreshTrigger]
    /\ targ = [i \in 1..doc.nTargets |-> FreshTarget]
    /\ initResult = "none"
    /\ inits = 0
    /\ last = [op |-> "load", idx |-> 0, cfg |-> NoConfig, prevented |-> FALSE, stopped |-> FALSE]
    /\ prev = [trig |-> trig, targ |-> targ, settings |-> settings]

\* No second copy of the page.
NoTwin == [trig |-> <<>>, targ |-> <<>>, triggers |-> Null, targets |-> Null,
           initResult |-> "none"]

Init == Loaded(Docs) /\ twin = NoTwin

InitSmall == Loaded(SmallDocs) /\ twin = NoTwin

\* init(c): initSettings, then initElements.
RunInit(c) ==
    \E s \in {initSettings(settings, c)} :
    \E r \in {initElements(impl, s, doc, triggers, targets, State0)} :
       /\ WithinBounds(r.st.trig)
       /\ settings' = s
       /\ triggers' = r.triggers
       /\ targets' = r.targets
       /\ trig' = r.st.trig
       /\ targ' = r.st.targ
       /\ initResult' = r.result
       /\ inits' = inits + 1
       /\ last' = Op("init", 0, c, State0)
       /\ prev' = Snapshot
       /\ UNCHANGED <<impl, doc, twin>>

\* The init call the page makes after DOMContentLoaded.
InitCall == \E c \in Configs : inits = 0 /\ RunInit(c)

\* A further init call.
ReInit == \E c \in Configs : inits > 0 /\ inits < MaxInits /\ RunInit(c)

\* An event of the given type is delivered to trigger i.
TriggerEvent(type, i) ==
    \E r \in {dispatch(impl, settings.mode, triggers, State0, i, type)} :
       /\ WithinBounds(r.trig)
       /\ trig' = r.trig
       /\ targ' = r.targ
       /\ last' = Op(type, i, NoConfig, r)
       /\ prev' = Snapshot
       /\ UNCHANGED <<impl, doc, settings, triggers, targets, initResult, inits, twin>>

Trigger == \E type \in EventTypes, i \in 1..doc.nTriggers : TriggerEvent(type, i)

\* A click is delivered to the close element of target i.
CloseClick(i) ==
    \E r \in {closeFrom(impl, settings.mode, triggers, State0, targ[i].closeListeners)} :
       /\ i \in doc.close
       /\ WithinBounds(r.trig)
       /\ trig' = r.trig
       /\ targ' = r.targ
       /\ last' = Op("closeclick", i, NoConfig, r)
       /\ prev' = Snapshot
       /\ UNCHANGED <<impl, doc, settings, triggers, targets, initResult, inits, twin>>

Close == \E i \in 1..doc.nTargets : CloseClick(i)

Next == InitCall \/ Trigger \/ Close

\* A page that calls init once, as the usage notes say.
Spec == Init /\ [][Next]_vars

NextReInit == Next \/ ReInit

\* A page on which init may be called again.
SpecReInit == InitSmall /\ [][NextReInit]_vars

----------------------------------------------------------------------------
(* The two definitions side by side: the same document, the same init call *)
(* and the same trigger events go to the first definition and to the other.*)

Other(v) == IF v = 1 THEN 2 ELSE 1

TwinState0 ==
    [trig |-> twin.trig, targ |-> twin.targ, thrown |-> FALSE, prevented |-> FALSE,
     stopped |-> FALSE]

\* Documents in which every target has its close element, so that a count
\* mismatch is the only reason for which the first definition's init fails.
CloseDocs == {d \in Docs : d.close = 1..d.nTargets}

InitBoth ==
    /\ Loaded(CloseDocs)
    /\ impl = 1
    /\ twin = [trig |-> trig, targ |-> targ, triggers |-> Null, targets |-> Null,
               initResult |-> "none"]

InitCallBoth ==
    \E c \in Configs :
    \E s \in {initSettings(settings, c)} :
    \E r \in {initElements(impl, s, doc, triggers, targets, State0)} :
    \E q \in {initElements(Other(impl), s, doc, twin.triggers, twin.targets, TwinState0)} :
       /\ inits = 0
       /\ WithinBounds(r.st.trig) /\ WithinBounds(q.st.trig)
       /\ settings' = s
       /\ triggers' = r.triggers
       /\ targets' = r.targets
       /\ trig' = r.st.trig
       /\ targ' = r.st.targ
       /\ initResult' = r.result
       /\ inits' = inits + 1
       /\ last' = Op("init", 0, c, State0)
       /\ prev' = Snapshot
       /\ twin' = [trig |-> q.st.trig, targ |-> q.st.targ, triggers |-> q.triggers,
                   targets |-> q.targets, initResult |-> q.result]
       /\ UNCHANGED <<impl, doc>>

TriggerEventBoth(type, i) ==
    \E r \in {dispatch(impl, settings.mode, triggers, State0, i, type)} :
    \E q \in {dispatch(Other(impl), settings.mode, twin.triggers, TwinState0, i, type)} :
       /\ WithinBounds(r.trig) /\ WithinBounds(q.trig)
       /\ trig' = r.trig
       /\ targ' = r.targ
       /\ last' = Op(type, i, NoConfig, r)
       /\ prev' = Snapshot
       /\ twin' = [twin EXCEPT !.trig = q.trig, !.targ = q.targ]
       /\ UNCHANGED <<impl, doc, settings, triggers, targets, initResult, inits>>

TriggerBoth == \E type \in EventTypes, i \in 1..doc.nTriggers : TriggerEventBoth(type, i)

NextBoth == InitCallBoth \/ TriggerBoth

SpecBoth == InitBoth /\ [][NextBoth]_vars

TypeOK ==
    /\ impl \in {1, 2}
    /\ settings.mode \in Modes /\ settings.triggerPos \in Positions
    /\ initResult \in {"none", "ok", "Error", "TypeError"}
    /\ \A i \in DOMAIN trig : trig[i].bound => trig[i].target = i

----------------------------------------------------------------------------
(* Vocabulary of the properties *)

Pairs == 1..doc.nTriggers

Ready == initResult = "ok"

Polite == settings.mode = "polite"
Rude == settings.mode = "rude"

Display(i) == targ[i].style.display

Has(tr, type, fn) == \E k \in 1..Len(tr.listeners) : tr.listeners[k] = Listener(type, fn)

\* The listeners of one event type, in order of registration.
OfType(tr, type) == LET t(x) == x.type = type IN SelectSeq(tr.listeners, t)

Closed(i) == ~trig[i].helpOn /\ Display(i) = "none"

OpenPairs == {i \in Pairs : trig[i].helpOn}

\* The last operation was an event of one of the given types on trigger i.
LastOn(types, i) == last.op \in types /\ last.idx = i

----------------------------------------------------------------------------
\* C1: in polite mode after a successful init, at most one pair has helpOn
\* true and at most one target has display 'block', in every reachable state.
C1_AtMostOneOpen ==
    (Ready /\ Polite) =>
        /\ Cardinality(OpenPairs) <= 1
        /\ Cardinality({i \in Pairs : Display(i) = "block"}) <= 1

\* A click has opened a pair while another pair was open.
C1_Witness ==
    /\ Ready /\ Polite
    /\ \E i \in Pairs, j \in Pairs :
          /\ i # j /\ LastOn({"click"}, i)
          /\ prev.trig[j].helpOn /\ trig[i].helpOn

\* C2: in polite mode, right after a click on the trigger of a closed pair i
\* while another pair j is open, pair i is open with display 'block' and
\* every other pair is closed with display 'none'.
C2_SwitchPair ==
    \A i \in Pairs :
        (/\ Ready /\ Polite
         /\ LastOn({"click"}, i)
         /\ ~prev.trig[i].helpOn
         /\ \E j \in Pairs \ {i} : prev.trig[j].helpOn)
        => /\ trig[i].helpOn /\ Display(i) = "block"
           /\ \A k \in Pairs \ {i} : Closed(k)

\* Three pairs: the second was clicked while the first was open, the third
\* is a bystander.
C2_Witness ==
    /\ Ready /\ Polite /\ doc.nTriggers = 3
    /\ LastOn({"click"}, 2) /\ prev.trig[1].helpOn /\ ~prev.trig[2].helpOn
    /\ trig[2].helpOn

\* C3: when the numbers of triggers and targets differ, init fails with the
\* count-mismatch error and binds nothing: no trigger has a target/helpOn
\* property or a listener, and the stored lists stay unset.
C3_MismatchFails ==
    (last.op = "init" /\ doc.nTriggers # doc.nTargets) =>
        /\ initResult = "Error"
        /\ triggers = Null /\ targets = Null
        /\ \A i \in Pairs : ~trig[i].bound /\ trig[i].listeners = <<>>

\* C4: when the numbers of triggers and targets are equal, init completes
\* without error and binds trigger i to target i, closed, with the listeners
\* of the closed state.
C4_MatchSucceeds ==
    (last.op = "init" /\ doc.nTriggers = doc.nTargets) =>
        /\ initResult = "ok"
        /\ \A i \in Pairs :
              /\ trig[i].bound /\ trig[i].target = i /\ ~trig[i].helpOn
              /\ Polite => Has(trig[i], "click", "showHelp")
              /\ Rude => /\ Has(trig[i], "mouseover", "showHelp")
                         /\ Has(trig[i], "focus", "showHelp")

\* C5: after a successful init, in either mode, a click on a close element
\* leaves every pair closed (helpOn false, display 'none').
C5_CloseClosesAll ==
    (Ready /\ last.op = "closeclick") => \A i \in Pairs : Closed(i)

\* C6: in rude mode a mouseover or focus on the trigger of a closed pair i
\* opens pair i and leaves every other pair as it was.
C6_RudeOpenFrame ==
    \A i \in Pairs :
        (Ready /\ Rude /\ LastOn({"mouseover", "focus"}, i) /\ ~prev.trig[i].helpOn)
        => /\ trig[i].helpOn /\ Display(i) = "block"
           /\ \A j \in Pairs \ {i} : trig[j] = prev.trig[j] /\ targ[j] = prev.targ[j]

\* A pair was opened while another was open: two pairs are open at once.
C6_Witness ==
    /\ Ready /\ Rude
    /\ \E i \in Pairs, j \in Pairs :
          /\ i # j /\ LastOn({"mouseover", "focus"}, i) /\ ~prev.trig[i].helpOn
          /\ trig[i].helpOn /\ trig[j].helpOn /\ Display(j) = "block"

\* C7: once a pair has been opened and closed again, its trigger has at most
\* one listener per event type.
C7_NoListenerLeak ==
    \A i \in Pairs :
        (Ready /\ prev.trig[i].helpOn /\ ~trig[i].helpOn)
        => \A type \in EventTypes : Len(OfType(trig[i], type)) <= 1

\* C8 as stated: in polite mode a click opens a closed pair and the next
\* click on the same trigger closes it, leaving helpOn, display and the
\* click listener as they were in the all-closed state before the first click.
C8_ToggleRestores ==
    [][\A i \in Pairs :
        (/\ Ready /\ Polite
         /\ LastOn({"click"}, i)
         /\ \A j \in Pairs : ~prev.trig[j].helpOn
         /\ last'.op = "click" /\ last'.idx = i)
        => /\ trig[i].helpOn
           /\ trig'[i].helpOn = prev.trig[i].helpOn
           /\ targ'[i].style.display = prev.targ[i].style.display
           /\ OfType(trig'[i], "click") = OfType(prev.trig[i], "click")]_vars

\* C8 as amended: the second click leaves helpOn and the click listener as
\* they were before the first click and the display 'none', which is the
\* display before the first click unless that was still unset.
C8_ToggleCloses ==
    [][\A i \in Pairs :
        (/\ Ready /\ Polite
         /\ LastOn({"click"}, i)
         /\ ~prev.trig[i].helpOn
         /\ last'.op = "click" /\ last'.idx = i)
        => /\ trig[i].helpOn /\ Display(i) = "block"
           /\ trig'[i].helpOn = prev.trig[i].helpOn
           /\ targ'[i].style.display = "none"
           /\ prev.targ[i].style.display # "" =>
                 targ'[i].style.display = prev.targ[i].style.display
           /\ OfType(trig'[i], "click") = OfType(prev.trig[i], "click")]_vars

\* A second click has closed the pair the click before it had opened.
C8_Witness ==
    /\ Ready /\ Polite
    /\ \E i \in Pairs : LastOn({"click"}, i) /\ prev.trig[i].helpOn /\ Closed(i)

\* C9: in rude mode mouseover or focus opens a closed pair, mouseout or blur
\* closes an open pair, and mouseover/focus on an open pair or mouseout/blur
\* on a closed pair change nothing.
C9_RudeTransitions ==
    \A i \in Pairs :
        (Ready /\ Rude) =>
            /\ (LastOn({"mouseover", "focus"}, i) /\ ~prev.trig[i].helpOn)
                  => trig[i].helpOn /\ Display(i) = "block"
            /\ (LastOn({"mouseout", "blur"}, i) /\ prev.trig[i].helpOn)
                  => Closed(i)
            /\ (\/ LastOn({"mouseover", "focus"}, i) /\ prev.trig[i].helpOn
                \/ LastOn({"mouseout", "blur"}, i) /\ ~prev.trig[i].helpOn)
                  => trig = prev.trig /\ targ = prev.targ

\* A blur has closed an open pair.
C9_Witness ==
    /\ Ready /\ Rude
    /\ \E i \in Pairs : LastOn({"blur"}, i) /\ prev.trig[i].helpOn /\ Closed(i)

\* The config of the last init call supplies the key.
Supplied(key) == last.cfg.kind = "object" /\ last.cfg[key].has = "own"

\* C10 as stated: after every init call each recognized key holds the value
\* the config supplies, and the default when the config does not supply it.
C10_ConfigOverDefaults ==
    last.op = "init" =>
        /\ settings.mode =
              IF Supplied("mode") THEN last.cfg.mode.val ELSE DefaultSettings.mode
        /\ settings.triggerPos =
              IF Supplied("triggerPos") THEN last.cfg.triggerPos.val
              ELSE DefaultSettings.triggerPos

\* C10 as amended: a key the config does not supply keeps the value it had
\* before the call, which is the default at the first init call.
C10_ConfigOverCurrent ==
    last.op = "init" =>
        /\ settings.mode =
              IF Supplied("mode") THEN last.cfg.mode.val ELSE prev.settings.mode
        /\ settings.triggerPos =
              IF Supplied("triggerPos") THEN last.cfg.triggerPos.val
              ELSE prev.settings.triggerPos
        /\ inits = 1 => prev.settings = DefaultSettings

\* A second init without a mode has kept the mode of the first.
C10_Witness ==
    /\ last.op = "init" /\ inits = 2
    /\ ~Supplied("mode") /\ Supplied("triggerPos")
    /\ settings.mode = "rude"

\* C11: after a successful init every click delivered to a trigger has its
\* default action prevented and its propagation stopped, and so has every
\* event that showHelp or hideHelp handles.
C11_ClicksSuppressed ==
    (Ready /\ last.op \in EventTypes) =>
        /\ last.op = "click" => last.prevented /\ last.stopped
        /\ trig[last.idx].helpOn # prev.trig[last.idx].helpOn
              => last.prevented /\ last.stopped

\* C12: after a successful init the listeners of every trigger are those of
\* its pair's state and mode, and none of the complementary state.
C12_ListenersMatchState ==
    Ready =>
        \A i \in Pairs :
            /\ (Polite /\ ~trig[i].helpOn) =>
                  Has(trig[i], "click", "showHelp") /\ ~Has(trig[i], "click", "hideHelp")
            /\ (Polite /\ trig[i].helpOn) =>
                  Has(trig[i], "click", "hideHelp") /\ ~Has(trig[i], "click", "showHelp")
            /\ (Rude /\ ~trig[i].helpOn) =>
                  /\ Has(trig[i], "mouseover", "showHelp") /\ Has(trig[i], "focus", "showHelp")
                  /\ ~Has(trig[i], "mouseout", "hideHelp") /\ ~Has(trig[i], "blur", "hideHelp")
            /\ (Rude /\ trig[i].helpOn) =>
                  /\ Has(trig[i], "mouseout", "hideHelp") /\ Has(trig[i], "blur", "hideHelp")
                  /\ ~Has(trig[i], "mouseover", "showHelp") /\ ~Has(trig[i], "focus", "showHelp")

\* An open pair beside a pair that has been opened and closed again.
C12_Witness ==
    /\ Ready
    /\ \E i \in Pairs, j \in Pairs : trig[i].helpOn /\ Closed(j)

\* C13: configureHandlers run twice on a trigger leaves the listeners that
\* one run leaves, for the mode and helpOn of every pair.
C13_ConfigureIdempotent ==
    Ready =>
        \A i \in Pairs :
            LET once == configureHandlers(impl, settings.mode, trig[i])
            IN configureHandlers(impl, settings.mode, once).listeners = once.listeners

\* The targets without a close element, and the first of them.
NoClose == (1..doc.nTargets) \ doc.close
FirstNoClose == CHOOSE k \in NoClose : \A j \in NoClose : k <= j

C15_HelpOnOwnership ==
    [][/\ last'.op = "init" => \A i \in Pairs : ~trig'[i].helpOn
       /\ \A i \in Pairs :
             trig'[i].helpOn # trig[i].helpOn =>
                \/ /\ last'.op \in EventTypes /\ last'.idx = i
                   /\ Has(trig[i], last'.op, "showHelp") /\ trig'[i].helpOn
                \/ /\ last'.op \in EventTypes /\ last'.idx = i
                   /\ Has(trig[i], last'.op, "hideHelp") /\ ~trig'[i].helpOn
                \/ /\ last'.op \in EventTypes /\ last'.idx \in Pairs \ {i}
                   /\ Has(trig[last'.idx], last'.op, "showHelp")
                   /\ Polite /\ ~trig'[i].helpOn
                \/ /\ last'.op = "closeclick"
                   /\ targ[last'.idx].closeListeners > 0 /\ ~trig'[i].helpOn]_vars

\* A click on a close element has closed an open pair.
C15_Witness ==
    /\ Ready /\ last.op = "closeclick"
    /\ \E i \in Pairs : prev.trig[i].helpOn /\ ~trig[i].helpOn

\* C16: after a successful init the target of a pair has display 'block'
\* exactly when helpOn is true, and a closed pair whose display a handler
\* has set has display 'none'.
C16_DisplayMatchesHelpOn ==
    Ready =>
        \A i \in Pairs :
            /\ Display(i) = "block" <=> trig[i].helpOn
            /\ ~trig[i].helpOn => Display(i) \in {"", "none"}

\* Three pairs: one open, one closed by a handler, one never touched.
C16_Witness ==
    /\ Ready /\ doc.nTriggers = 3
    /\ \E i \in Pairs, j \in Pairs, k \in Pairs :
          /\ trig[i].helpOn /\ Display(i) = "block"
          /\ ~trig[j].helpOn /\ Display(j) = "none"
          /\ ~trig[k].helpOn /\ Display(k) = ""

\* C17: a pair goes from closed to open only by an opening event on its own
\* trigger: a click in polite mode, a mouseover or focus in rude mode.
C17_OpenedByOwnTrigger ==
    \A i \in Pairs :
        (~prev.trig[i].helpOn /\ trig[i].helpOn) =>
            /\ last.idx = i
            /\ \/ Polite /\ last.op = "click"
               \/ Rude /\ last.op \in {"mouseover", "focus"}

\* A focus has opened a pair while another pair stayed closed.
C17_Witness ==
    /\ Ready /\ Rude
    /\ \E i \in Pairs, j \in Pairs :
          /\ LastOn({"focus"}, i) /\ ~prev.trig[i].helpOn /\ trig[i].helpOn
          /\ j # i /\ ~trig[j].helpOn

\* C18: after the same successful init with at least one pair and the same
\* trigger events, the two definitions give every pair the same helpOn and
\* the same target display.
C18_DefinitionsAgree ==
    (Ready /\ twin.initResult = "ok" /\ doc.nTriggers >= 1) =>
        \A i \in Pairs :
            /\ trig[i].helpOn = twin.trig[i].helpOn
            /\ Display(i) = twin.targ[i].style.display

\* Under both definitions a click in rude mode has left a pair open beside
\* a pair that has been opened and closed.
C18_Witness ==
    /\ Ready /\ twin.initResult = "ok" /\ Rude /\ last.op = "click"
    /\ \E i \in Pairs, j \in Pairs :
          /\ trig[i].helpOn /\ twin.trig[i].helpOn
          /\ Closed(j) /\ twin.targ[j].style.display = "none"

====
